---- MODULE Spec2Model ----
(***************************************************************************)
(* Token lifecycle of the Microsoft Graph MCP server.                      *)
(*                                                                         *)
(* Two generations of the authentication code live in the repository and   *)
(* both are modelled:                                                      *)
(*   - createTokenManager (src/src/auth/client-credentials.ts 65-129): the *)
(*     closure-based app-only token cache with the 5 minute refresh        *)
(*     buffer, checked under SpecTM;                                       *)
(*   - AuthManager with ClientCredentialsAuth and DeviceCodeAuth           *)
(*     (src/src/auth/auth-manager.ts, client-credentials.ts 1-54,          *)
(*     device-code.ts), with GraphClient.callApi on top of it              *)
(*     (src/src/bin.ts 24-88), checked under SpecAM.                       *)
(* The start of the server, createConfig and createServer                  *)
(* (src/src/index.ts 17-84), is checked under SpecSrv.                     *)
(* Time is in milliseconds, as Date.now() gives it.                        *)
(***************************************************************************)
EXTENDS Integers, Sequences, FiniteSets, TLC

VARIABLES
  now,          \* Date.now(), in ms
  tmConfig,     \* createTokenManager: the config the closure holds (tenantId, clientSecret)
  session,      \* createTokenManager: state.session (Null or Some(AppOnlySession))
  pc,           \* createTokenManager: per caller, "idle" or "fetching" (awaiting fetchToken)
  fetchCount,   \* number of requests sent to the token endpoint
  tmLast,       \* the latest event of a getToken call since the clock last moved:
                \* it sent a request, or what it returned
  lastAcq,      \* when, and with which expires_in, state.session was last stored,
                \* and the token of the session that one replaced
  config,               \* AuthManager: config (authMode, clientSecret)
  currentMode,          \* AuthManager: currentMode
  manualToken,          \* AuthManager: manualToken (Null or Some(TokenInfo))
  deviceCodeAuth,       \* AuthManager: deviceCodeAuth (Null or Some(strategy))
  clientCredentialsAuth, \* AuthManager: clientCredentialsAuth (Null or Some(strategy))
  amLast,               \* the latest AuthManager call and its outcome (reset by a clock tick)
  acquired,             \* a token has been acquired or installed since construction
  env,          \* process.env: the variables createConfig reads
  srvConfig,    \* runServer: the ServerConfig createConfig returned (Null before)
  server,       \* runServer: what createServer returned (Null before)
  srvLast       \* the latest step of runServer and its outcome

tmVars == <<tmConfig, session, pc, fetchCount, tmLast, lastAcq>>

amVars ==
  <<config, currentMode, manualToken, deviceCodeAuth, clientCredentialsAuth, amLast,
    acquired>>

srvVars == <<env, srvConfig, server, srvLast>>

vars == <<now, tmVars, amVars, srvVars>>

-----------------------------------------------------------------------------
(* Optional values: null / undefined is the empty sequence.                 *)

Null == <<>>

Some(x) == <<x>>

Val(o) == o[1]

(* s contains sub as a substring.                                           *)
Contains(s, sub) ==
  \E i \in 1..(Len(s) - Len(sub) + 1) : SubSeq(s, i, i + Len(sub) - 1) = sub

-----------------------------------------------------------------------------
(* Bounds of the model.                                                     *)

MaxCallers == 2

MaxFetches == 3

MaxTicks == 5

TickMs == 30 * 1000

Callers == 1..MaxCallers

TMInstants == {k * TickMs : k \in 0..MaxTicks}

-----------------------------------------------------------------------------
(* The token endpoint (external): what a POST to it can answer.             *)

Tokens == {"tokA", "tokB"}

ExpiresIns == {-60, 0, 300, 360, 3600}

Statuses == {401, 500}

BodyInvalidClient ==
  "{\"error\":\"invalid_client\",\"error_description\":\"Invalid client credentials\"}"

BodyErrorOnly == "{\"error\":\"invalid_client\"}"

BodyEmptyObject == "{}"

BodyPlainText == "Internal Server Error"

BodyJsonNull == "null"

Bodies ==
  {BodyInvalidClient, BodyErrorOnly, BodyEmptyObject, BodyPlainText, BodyJsonNull}

OkResponses ==
  [kind : {"ok"}, status : {200}, access_token : Tokens,
   expires_in : ExpiresIns, text : {""}]

ErrorResponses ==
  [kind : {"http_error"}, status : Statuses, access_token : {""},
   expires_in : {0}, text : Bodies]

NetworkFailure ==
  [kind |-> "network", status |-> 0, access_token |-> "", expires_in |-> 0,
   text |-> "fetch failed"]

Responses == OkResponses \cup ErrorResponses \cup {NetworkFailure}

(* JSON.parse on the bodies above: "fail" is a SyntaxError, "null" the JSON *)
(* value null, "object" an object with its two optional members.            *)
JSONParse(text) ==
  CASE text = BodyInvalidClient ->
         [kind |-> "object", error_description |-> Some("Invalid client credentials"),
          error |-> Some("invalid_client")]
    [] text = BodyErrorOnly ->
         [kind |-> "object", error_description |-> Null, error |-> Some("invalid_client")]
    [] text = BodyEmptyObject ->
         [kind |-> "object", error_description |-> Null, error |-> Null]
    [] text = BodyJsonNull ->
         [kind |-> "null", error_description |-> Null, error |-> Null]
    [] OTHER ->
         [kind |-> "fail", error_description |-> Null, error |-> Null]

-----------------------------------------------------------------------------
(* createTokenManager                                                       *)

TOKEN_REFRESH_BUFFER_MS == 5 * 60 * 1000

(* Variants of errorMessage with a slip in the extraction.                  *)
errorMessagePrefersError(status, errorText) ==
  LET errorJson == JSONParse(errorText) IN
  IF errorJson.kind = "object"
  THEN IF errorJson.error # Null THEN Val(errorJson.error)
       ELSE IF errorJson.error_description # Null THEN Val(errorJson.error_description)
       ELSE "Token request failed: " \o ToString(status)
  ELSE "Token request failed: " \o ToString(status) \o " - " \o errorText

errorMessageDropsBody(status, errorText) ==
  LET errorJson == JSONParse(errorText) IN
  IF errorJson.kind = "object"
  THEN IF errorJson.error_description # Null THEN Val(errorJson.error_description)
       ELSE IF errorJson.error # Null THEN Val(errorJson.error)
       ELSE "Token request failed: " \o ToString(status)
  ELSE "Token request failed: " \o ToString(status)

(* fetchToken's message for a response that is not ok: the try block reads *)
(* members of the parsed value, so a body that parses to null ends in the  *)
(* catch branch like a body that does not parse.                           *)
errorMessage(status, errorText) ==
  LET errorJson == JSONParse(errorText) IN
  IF errorJson.kind = "object"
  THEN IF errorJson.error_description # Null THEN Val(errorJson.error_description)
       ELSE IF errorJson.error # Null THEN Val(errorJson.error)
       ELSE "Token request failed: " \o ToString(status)
  ELSE "Token request failed: " \o ToString(status) \o " - " \o errorText

(* A variant of newSession that adds expires_in as if it were in ms.        *)
newSessionAddsSeconds(data) ==
  [accessToken |-> data.access_token, expiresAt |-> now + data.expires_in]

(* The AppOnlySession fetchToken builds from a successful response.         *)
newSession(data) ==
  [accessToken |-> data.access_token, expiresAt |-> now + data.expires_in * 1000]

(* Variants of isTokenValid: the comparison inverted, the buffer left out,  *)
(* a record taken as valid up to and at its expiry.                        *)
isTokenValidInverted(s) == now > s.expiresAt - TOKEN_REFRESH_BUFFER_MS

isTokenValidUntilExpiry(s) == now <= s.expiresAt

isTokenValidNoBuffer(s) == now < s.expiresAt

isTokenValid(s) == now < s.expiresAt - TOKEN_REFRESH_BUFFER_MS

NoResult == [kind |-> "none", token |-> "", msg |-> "", status |-> 0, body |-> ""]

Sent == [kind |-> "sent", token |-> "", msg |-> "", status |-> 0, body |-> ""]

Returned(kind, token) ==
  [kind |-> kind, token |-> token, msg |-> "", status |-> 0, body |-> ""]

Thrown(msg, r) ==
  [kind |-> "failed", token |-> "", msg |-> msg, status |-> r.status, body |-> r.text]

NoAcq == [at |-> -1, expires_in |-> 0, token |-> "", prev |-> "", raced |-> FALSE]

(* The record of the acquisition that stores the session of response r:    *)
(* raced tells that the session it replaces is still valid, which is to    *)
(* say that it was stored while this acquisition was in flight.            *)
Acq(r) ==
  [at |-> now, expires_in |-> r.expires_in, token |-> r.access_token,
   prev |-> IF session = Null THEN "" ELSE Val(session).accessToken,
   raced |-> session # Null /\ isTokenValid(Val(session))]

TMConfigs == [tenantId : {"common", "contoso"}, clientSecret : {"", "s3cret"}]

DefaultTMConfig == [tenantId |-> "contoso", clientSecret |-> "s3cret"]

(* The secret is missing or the tenant is the wildcard.                     *)
BadCredentials(cfg) == cfg.clientSecret = "" \/ cfg.tenantId = "common"

(* The token endpoint issues an app-only token only to a client that       *)
(* presents a secret to the endpoint of a specific tenant.                 *)
ResponsesFor(cfg) ==
  IF BadCredentials(cfg) THEN ErrorResponses \cup {NetworkFailure} ELSE Responses

TMInit ==
  /\ session = Null
  /\ pc = [c \in Callers |-> "idle"]
  /\ fetchCount = 0
  /\ tmLast = NoResult
  /\ lastAcq = NoAcq

(* A variant of getSession that serialises acquisition: a call that finds  *)
(* no valid session while another call awaits the endpoint waits for that  *)
(* call's answer instead of sending a request of its own.                  *)
GetSessionJoinsInFlight(c) ==
  /\ pc[c] = "idle"
  /\ \/ /\ session # Null
        /\ isTokenValid(Val(session))
        /\ tmLast' = Returned("hit", Val(session).accessToken)
        /\ UNCHANGED <<now, session, pc, fetchCount, lastAcq, tmConfig, amVars, srvVars>>
     \/ /\ ~(session # Null /\ isTokenValid(Val(session)))
        /\ \E d \in Callers : pc[d] = "fetching"
        /\ pc' = [pc EXCEPT ![c] = "fetching"]
        /\ UNCHANGED <<now, session, fetchCount, tmLast, lastAcq, tmConfig, amVars, srvVars>>
     \/ /\ ~(session # Null /\ isTokenValid(Val(session)))
        /\ \A d \in Callers : pc[d] # "fetching"
        /\ fetchCount < MaxFetches
        /\ pc' = [pc EXCEPT ![c] = "fetching"]
        /\ fetchCount' = fetchCount + 1
        /\ tmLast' = Sent
        /\ UNCHANGED <<now, session, lastAcq, tmConfig, amVars, srvVars>>

(* getToken / getSession up to its await: a valid cached session is        *)
(* returned at once, otherwise fetchToken sends its request.               *)
GetSession(c) ==
  /\ pc[c] = "idle"
  /\ \/ /\ session # Null
        /\ isTokenValid(Val(session))
        /\ tmLast' = Returned("hit", Val(session).accessToken)
        /\ UNCHANGED <<now, session, pc, fetchCount, lastAcq, tmConfig, amVars, srvVars>>
     \/ /\ ~(session # Null /\ isTokenValid(Val(session)))
        /\ fetchCount < MaxFetches
        /\ pc' = [pc EXCEPT ![c] = "fetching"]
        /\ fetchCount' = fetchCount + 1
        /\ tmLast' = Sent
        /\ UNCHANGED <<now, session, lastAcq, tmConfig, amVars, srvVars>>

(* A variant of the continuation that sends the request again when the     *)
(* endpoint answered with a failure.                                       *)
FetchTokenReturnRetries(c, r) ==
  /\ pc[c] = "fetching"
  /\ \/ /\ r.kind = "ok"
        /\ pc' = [pc EXCEPT ![c] = "idle"]
        /\ session' = Some(newSession(r))
        /\ tmLast' = Returned("fetched", newSession(r).accessToken)
        /\ lastAcq' = Acq(r)
        /\ UNCHANGED fetchCount
     \/ /\ r.kind # "ok"
        /\ fetchCount < MaxFetches
        /\ fetchCount' = fetchCount + 1
        /\ tmLast' = Sent
        /\ UNCHANGED <<pc, session, lastAcq>>
     \/ /\ r.kind # "ok"
        /\ fetchCount >= MaxFetches
        /\ pc' = [pc EXCEPT ![c] = "idle"]
        /\ tmLast' = Thrown(r.text, r)
        /\ UNCHANGED <<fetchCount, session, lastAcq>>
  /\ UNCHANGED <<now, tmConfig, amVars, srvVars>>

(* A variant of the continuation that keeps the session already stored     *)
(* and hands the fetched one to its caller only.                           *)
FetchTokenReturnKeepsStored(c, r) ==
  /\ pc[c] = "fetching"
  /\ pc' = [pc EXCEPT ![c] = "idle"]
  /\ \/ /\ r.kind = "ok"
        /\ session' = IF session = Null THEN Some(newSession(r)) ELSE session
        /\ tmLast' = Returned("fetched", newSession(r).accessToken)
        /\ lastAcq' = IF session = Null THEN Acq(r) ELSE lastAcq
     \/ /\ r.kind = "http_error"
        /\ tmLast' = Thrown(errorMessage(r.status, r.text), r)
        /\ UNCHANGED <<session, lastAcq>>
     \/ /\ r.kind = "network"
        /\ tmLast' = Thrown(r.text, r)
        /\ UNCHANGED <<session, lastAcq>>
  /\ UNCHANGED <<now, fetchCount, tmConfig, amVars, srvVars>>

(* A variant of the continuation that remembers a rejection: it stores a   *)
(* session without token, so that the calls of the next hour do not ask    *)
(* the endpoint again.                                                     *)
FetchTokenReturnCachesFailure(c, r) ==
  /\ pc[c] = "fetching"
  /\ pc' = [pc EXCEPT ![c] = "idle"]
  /\ \/ /\ r.kind = "ok"
        /\ session' = Some(newSession(r))
        /\ tmLast' = Returned("fetched", newSession(r).accessToken)
        /\ lastAcq' = Acq(r)
     \/ /\ r.kind = "http_error"
        /\ session' = Some([accessToken |-> "", expiresAt |-> now + 3600 * 1000])
        /\ tmLast' = Thrown(errorMessage(r.status, r.text), r)
        /\ UNCHANGED lastAcq
     \/ /\ r.kind = "network"
        /\ tmLast' = Thrown(r.text, r)
        /\ UNCHANGED <<session, lastAcq>>
  /\ UNCHANGED <<now, fetchCount, tmConfig, amVars, srvVars>>

(* A variant of the continuation that updates the stored session member   *)
(* by member and keeps the later of the two expiries.                      *)
FetchTokenReturnMergesSessions(c, r) ==
  /\ pc[c] = "fetching"
  /\ pc' = [pc EXCEPT ![c] = "idle"]
  /\ \/ /\ r.kind = "ok"
        /\ session' =
             IF session # Null /\ Val(session).expiresAt > newSession(r).expiresAt
             THEN Some([accessToken |-> newSession(r).accessToken,
                        expiresAt |-> Val(session).expiresAt])
             ELSE Some(newSession(r))
        /\ tmLast' = Returned("fetched", newSession(r).accessToken)
        /\ lastAcq' = Acq(r)
     \/ /\ r.kind = "http_error"
        /\ tmLast' = Thrown(errorMessage(r.status, r.text), r)
        /\ UNCHANGED <<session, lastAcq>>
     \/ /\ r.kind = "network"
        /\ tmLast' = Thrown(r.text, r)
        /\ UNCHANGED <<session, lastAcq>>
  /\ UNCHANGED <<now, fetchCount, tmConfig, amVars, srvVars>>

(* The rest of fetchToken and getSession once the endpoint has answered r.  *)
FetchTokenReturn(c, r) ==
  /\ pc[c] = "fetching"
  /\ pc' = [pc EXCEPT ![c] = "idle"]
  /\ \/ /\ r.kind = "ok"
        /\ session' = Some(newSession(r))
        /\ tmLast' = Returned("fetched", newSession(r).accessToken)
        /\ lastAcq' = Acq(r)
     \/ /\ r.kind = "http_error"
        /\ tmLast' = Thrown(errorMessage(r.status, r.text), r)
        /\ UNCHANGED <<session, lastAcq>>
     \/ /\ r.kind = "network"
        /\ tmLast' = Thrown(r.text, r)
        /\ UNCHANGED <<session, lastAcq>>
  /\ UNCHANGED <<now, fetchCount, tmConfig, amVars, srvVars>>

(* The clock moves on to a later instant.                                   *)
TickTM ==
  /\ \E t \in TMInstants : t > now /\ now' = t
  /\ tmLast' = NoResult
  /\ UNCHANGED <<session, pc, fetchCount, lastAcq, tmConfig, amVars, srvVars>>

(* createTokenManager(cfg)                                                  *)
createTokenManager(cfg) == tmConfig = cfg /\ TMInit

NextTM ==
  \/ \E c \in Callers : GetSession(c)
  \/ \E c \in Callers : \E r \in ResponsesFor(tmConfig) : FetchTokenReturn(c, r)
  \/ TickTM

-----------------------------------------------------------------------------
(* AuthManager, ClientCredentialsAuth and DeviceCodeAuth.  Each public     *)
(* method is one action; the MSAL library is external, and each call to it *)
(* ends in one of its outcomes: a result, null, or an exception.           *)

AuthModes == {"device_code", "client_credentials", "client_token"}

ClientSecrets == {Null, Some("s3cret")}

Configs == [authMode : AuthModes, clientSecret : ClientSecrets]

ManualTokens == {"X", ""}

DeviceTokens == {"D1"}

AppTokens == {"C1"}

AMInstants == {0, 60 * 1000, 3600 * 1000}

(* A JavaScript truthiness test on an optional string.                      *)
Truthy(str) == str # Null /\ Val(str) # ""

(* What MSAL can answer to an acquisition: result.expiresOn may be null.    *)
MsalOutcomes(tokens) ==
  [kind : {"result"}, accessToken : tokens, expiresOn : {Null, Some(now + 60 * 1000)}]
    \cup {[kind |-> "null", accessToken |-> "", expiresOn |-> Null],
          [kind |-> "throw", accessToken |-> "", expiresOn |-> Null]}

TokenInfo(accessToken, expiresOn) ==
  [accessToken |-> accessToken, expiresOn |-> expiresOn]

(* DeviceCodeAuth.toTokenInfo, and the same record built inline by         *)
(* ClientCredentialsAuth.getAccessToken.                                   *)
toTokenInfo(result) ==
  TokenInfo(result.accessToken,
            IF result.expiresOn # Null THEN Val(result.expiresOn) ELSE now + 3600 * 1000)

(* The users who can complete a device-code sign-in.                        *)
Users == {"alice", "bob"}

(* new DeviceCodeAuth(...): no cached token, an empty MSAL account cache   *)
(* (accounts is the number of accounts in it).                             *)
NewDeviceCodeAuth == [cachedToken |-> Null, accounts |-> 0]

(* The number of accounts in MSAL's cache after a sign-in that found n:    *)
(* the user who signed in is one of those, or one more.                    *)
AccountsAfterSignIn(n) ==
  {IF n = 0 THEN 1 ELSE n, IF n < Cardinality(Users) THEN n + 1 ELSE n}

(* new ClientCredentialsAuth(...)                                           *)
NewClientCredentialsAuth == [cachedToken |-> Null]

(* A variant of the cache test that forgets the expiry.                     *)
notExpiredIgnoresExpiry(tokenInfo) == tokenInfo # Null

(* The cache test of both strategies and of the manual token.               *)
notExpired(tokenInfo) == tokenInfo # Null /\ Val(tokenInfo).expiresOn > now

(* A variant of DeviceCodeAuth.getAccessToken without the try / catch      *)
(* around acquireTokenSilent.                                              *)
DeviceGetAccessTokenPropagates(d, o) ==
  IF notExpired(d.cachedToken)
  THEN [threw |-> FALSE, msg |-> "", info |-> d.cachedToken, acq |-> "none",
        dca |-> Some(d), cca |-> clientCredentialsAuth]
  ELSE IF d.accounts > 0
  THEN CASE o.kind = "result" ->
              [threw |-> FALSE, msg |-> "", info |-> Some(toTokenInfo(o)), acq |-> "ok",
               dca |-> Some([d EXCEPT !.cachedToken = Some(toTokenInfo(o))]),
               cca |-> clientCredentialsAuth]
         [] o.kind = "throw" ->
              [threw |-> TRUE, msg |-> "msal error", info |-> Null, acq |-> "failed",
               dca |-> Some(d), cca |-> clientCredentialsAuth]
         [] OTHER ->
              [threw |-> FALSE, msg |-> "", info |-> Null, acq |-> "failed",
               dca |-> Some(d), cca |-> clientCredentialsAuth]
  ELSE [threw |-> FALSE, msg |-> "", info |-> Null, acq |-> "none",
        dca |-> Some(d), cca |-> clientCredentialsAuth]

(* DeviceCodeAuth.getAccessToken on strategy d, with o the outcome of      *)
(* acquireTokenSilent should it be called.                                 *)
DeviceGetAccessToken(d, o) ==
  IF notExpired(d.cachedToken)
  THEN [threw |-> FALSE, msg |-> "", info |-> d.cachedToken, acq |-> "none",
        dca |-> Some(d), cca |-> clientCredentialsAuth]
  ELSE IF d.accounts > 0
  THEN IF o.kind = "result"
       THEN [threw |-> FALSE, msg |-> "", info |-> Some(toTokenInfo(o)), acq |-> "ok",
             dca |-> Some([d EXCEPT !.cachedToken = Some(toTokenInfo(o))]),
             cca |-> clientCredentialsAuth]
       ELSE [threw |-> FALSE, msg |-> "", info |-> Null, acq |-> "failed",
             dca |-> Some(d), cca |-> clientCredentialsAuth]
  ELSE [threw |-> FALSE, msg |-> "", info |-> Null, acq |-> "none",
        dca |-> Some(d), cca |-> clientCredentialsAuth]

(* ClientCredentialsAuth.getAccessToken on strategy c, with o the outcome  *)
(* of acquireTokenByClientCredential should it be called.                  *)
ClientCredentialsGetAccessToken(c, o) ==
  IF notExpired(c.cachedToken)
  THEN [threw |-> FALSE, msg |-> "", info |-> c.cachedToken, acq |-> "none",
        dca |-> deviceCodeAuth, cca |-> Some(c)]
  ELSE IF o.kind = "result"
  THEN [threw |-> FALSE, msg |-> "", info |-> Some(toTokenInfo(o)), acq |-> "ok",
        dca |-> deviceCodeAuth,
        cca |-> Some([c EXCEPT !.cachedToken = Some(toTokenInfo(o))])]
  ELSE [threw |-> FALSE, msg |-> "", info |-> Null, acq |-> "failed",
        dca |-> deviceCodeAuth, cca |-> Some(c)]

(* A variant of getTokenInfo that, in client_token mode without a usable   *)
(* manual token, falls back to the record the device-code strategy holds.  *)
getTokenInfoFallsBack(o) ==
  CASE currentMode = "client_token" ->
         [threw |-> FALSE, msg |-> "",
          info |-> IF notExpired(manualToken) THEN manualToken
                   ELSE IF deviceCodeAuth # Null
                           /\ notExpired(Val(deviceCodeAuth).cachedToken)
                   THEN Val(deviceCodeAuth).cachedToken
                   ELSE Null,
          acq |-> "none", dca |-> deviceCodeAuth, cca |-> clientCredentialsAuth]
    [] currentMode = "device_code" ->
         DeviceGetAccessToken(
           IF deviceCodeAuth = Null THEN NewDeviceCodeAuth ELSE Val(deviceCodeAuth), o)
    [] currentMode = "client_credentials" ->
         IF clientCredentialsAuth = Null /\ ~Truthy(config.clientSecret)
         THEN [threw |-> TRUE, msg |-> "Client secret required for client_credentials mode",
               info |-> Null, acq |-> "none",
               dca |-> deviceCodeAuth, cca |-> clientCredentialsAuth]
         ELSE ClientCredentialsGetAccessToken(
                IF clientCredentialsAuth = Null
                THEN NewClientCredentialsAuth
                ELSE Val(clientCredentialsAuth), o)

(* AuthManager.getTokenInfo: what it returns or throws, and the strategy   *)
(* objects it leaves behind.                                               *)
getTokenInfo(o) ==
  CASE currentMode = "client_token" ->
         [threw |-> FALSE, msg |-> "",
          info |-> IF notExpired(manualToken) THEN manualToken ELSE Null,
          acq |-> "none", dca |-> deviceCodeAuth, cca |-> clientCredentialsAuth]
    [] currentMode = "device_code" ->
         DeviceGetAccessToken(
           IF deviceCodeAuth = Null THEN NewDeviceCodeAuth ELSE Val(deviceCodeAuth), o)
    [] currentMode = "client_credentials" ->
         IF clientCredentialsAuth = Null /\ ~Truthy(config.clientSecret)
         THEN [threw |-> TRUE, msg |-> "Client secret required for client_credentials mode",
               info |-> Null, acq |-> "none",
               dca |-> deviceCodeAuth, cca |-> clientCredentialsAuth]
         ELSE ClientCredentialsGetAccessToken(
                IF clientCredentialsAuth = Null
                THEN NewClientCredentialsAuth
                ELSE Val(clientCredentialsAuth), o)

(* getTokenInfo is about to ask MSAL for a token: the strategy of the mode  *)
(* exists or can be built, its cached record is not usable and, in         *)
(* device_code mode, an account is stored.                                 *)
WillAcquire ==
  CASE currentMode = "client_token" -> FALSE
    [] currentMode = "device_code" ->
         IF deviceCodeAuth = Null THEN FALSE
         ELSE /\ ~notExpired(Val(deviceCodeAuth).cachedToken)
              /\ Val(deviceCodeAuth).accounts > 0
    [] currentMode = "client_credentials" ->
         IF clientCredentialsAuth = Null THEN Truthy(config.clientSecret)
         ELSE ~notExpired(Val(clientCredentialsAuth).cachedToken)

(* The outcomes MSAL can give to the acquisition getTokenInfo would make;  *)
(* when it makes none, the outcome does not matter and one stands for all. *)
OutcomesForMode ==
  IF WillAcquire
  THEN MsalOutcomes(IF currentMode = "device_code" THEN DeviceTokens ELSE AppTokens)
  ELSE {[kind |-> "null", accessToken |-> "", expiresOn |-> Null]}

(* The tool registerGraphTools or registerAuthTools registers around a     *)
(* call ("" for a method no tool calls), the text its handler puts before  *)
(* the message of a caught error, and the text of its successful result    *)
(* (the JSON texts of microsoft_graph and get_auth_status are not spelled  *)
(* out, nor is the account sign_in names).                                 *)
ToolOf(op) ==
  CASE op = "callApi" -> "microsoft_graph"
    [] op = "getAuthStatus" -> "get_auth_status"
    [] op = "setAccessToken" -> "set_access_token"
    [] op = "initiateDeviceCodeFlow" -> "sign_in"
    [] op = "signOut" -> "sign_out"
    [] OTHER -> ""

ErrorPrefix(tool) ==
  CASE tool = "microsoft_graph" -> "Error: "
    [] tool = "get_auth_status" -> "Error checking auth status: "
    [] tool = "set_access_token" -> "Error setting access token: "
    [] tool = "sign_in" -> "Sign in failed: "
    [] tool = "sign_out" -> "Sign out failed: "

SuccessText(tool) ==
  CASE tool = "microsoft_graph" -> "<response.data>"
    [] tool = "get_auth_status" -> "<status>"
    [] tool = "set_access_token" ->
         "Access token set successfully. Auth mode switched to client_token."
    [] tool = "sign_in" -> "Authentication successful! Signed in as: <account>"
    [] tool = "sign_out" ->
         "Signed out successfully. All cached tokens have been cleared."

NoTool == [name |-> "", threw |-> FALSE, isError |-> FALSE, text |-> ""]

(* A variant of the handlers whose catch block does not take the message   *)
(* of the error it caught.                                                 *)
toolHandlerDropsMessage(op, threw, msg) ==
  IF ToolOf(op) = "" THEN NoTool
  ELSE IF threw
  THEN [name |-> ToolOf(op), threw |-> FALSE, isError |-> TRUE,
        text |-> ErrorPrefix(ToolOf(op)) \o "Unknown error occurred"]
  ELSE [name |-> ToolOf(op), threw |-> FALSE, isError |-> FALSE,
        text |-> SuccessText(ToolOf(op))]

(* What the tool handler around a call returns, the call having thrown an  *)
(* Error with message msg or returned: every handler is one try / catch    *)
(* around its call, so it never throws itself (threw).                     *)
toolHandler(op, threw, msg) ==
  IF ToolOf(op) = "" THEN NoTool
  ELSE IF threw
  THEN [name |-> ToolOf(op), threw |-> FALSE, isError |-> TRUE,
        text |-> ErrorPrefix(ToolOf(op)) \o msg]
  ELSE [name |-> ToolOf(op), threw |-> FALSE, isError |-> FALSE,
        text |-> SuccessText(ToolOf(op))]

(* No response: callApi sent no request.                                    *)
NoResponse == [kind |-> "none", status |-> 0, statusText |-> "", data |-> ""]

(* The record of a call: the call before it when that was a signOut or a   *)
(* setAccessToken (after), whether a token had been acquired or installed  *)
(* before it (had), its outcome, whether it sent a request to the Graph or *)
(* Azure API (http) and the response to it (resp), and what the tool       *)
(* handler around it returns (tool).                                       *)
Call(op, threw, msg, ret, exp, auth, acq) ==
  [op |-> op,
   after |-> IF amLast.op \in {"signOut", "setAccessToken"} THEN amLast.op ELSE "",
   had |-> acquired, threw |-> threw, msg |-> msg,
   ret |-> ret, exp |-> exp, auth |-> auth, mode |-> "", acq |-> acq, http |-> "none",
   resp |-> NoResponse, tool |-> toolHandler(op, threw, msg)]

NoCall ==
  [op |-> "new", after |-> "", had |-> FALSE, threw |-> FALSE, msg |-> "", ret |-> Null,
   exp |-> Null, auth |-> FALSE, mode |-> "", acq |-> "none", http |-> "none",
   resp |-> NoResponse, tool |-> NoTool]

(* new AuthManager(cfg)                                                     *)
AMConstruct(cfg) ==
  /\ config = cfg
  /\ currentMode = cfg.authMode
  /\ deviceCodeAuth =
       IF cfg.authMode = "device_code" THEN Some(NewDeviceCodeAuth) ELSE Null
  /\ clientCredentialsAuth =
       IF cfg.authMode = "client_credentials" /\ Truthy(cfg.clientSecret)
       THEN Some(NewClientCredentialsAuth)
       ELSE Null
  /\ manualToken = Null
  /\ amLast = NoCall
  /\ acquired = FALSE

(* AuthManager.getAccessToken                                               *)
GetAccessToken ==
  \E o \in OutcomesForMode :
    LET t == getTokenInfo(o) IN
    /\ deviceCodeAuth' = t.dca
    /\ clientCredentialsAuth' = t.cca
    /\ amLast' =
         IF t.threw
         THEN Call("getAccessToken", TRUE, t.msg, Null, Null, FALSE, t.acq)
         ELSE Call("getAccessToken", FALSE, "",
                   IF t.info # Null THEN Some(Val(t.info).accessToken) ELSE Null,
                   IF t.info # Null THEN Some(Val(t.info).expiresOn) ELSE Null,
                   FALSE, t.acq)
    /\ acquired' = (acquired \/ t.acq = "ok")
    /\ UNCHANGED <<now, tmVars, srvVars, config, currentMode, manualToken>>

(* A variant of getAuthStatus that reports the mode of the config.         *)
GetAuthStatusReportsConfiguredMode ==
  \E o \in OutcomesForMode :
    LET t == getTokenInfo(o) IN
    /\ deviceCodeAuth' = t.dca
    /\ clientCredentialsAuth' = t.cca
    /\ amLast' =
         IF t.threw
         THEN Call("getAuthStatus", TRUE, t.msg, Null, Null, FALSE, t.acq)
         ELSE [Call("getAuthStatus", FALSE, "", Null,
                    IF t.info # Null THEN Some(Val(t.info).expiresOn) ELSE Null,
                    t.info # Null, t.acq)
                 EXCEPT !.mode = config.authMode]
    /\ acquired' = (acquired \/ t.acq = "ok")
    /\ UNCHANGED <<now, tmVars, srvVars, config, currentMode, manualToken>>

(* AuthManager.getAuthStatus                                                *)
GetAuthStatus ==
  \E o \in OutcomesForMode :
    LET t == getTokenInfo(o) IN
    /\ deviceCodeAuth' = t.dca
    /\ clientCredentialsAuth' = t.cca
    /\ amLast' =
         IF t.threw
         THEN Call("getAuthStatus", TRUE, t.msg, Null, Null, FALSE, t.acq)
         ELSE [Call("getAuthStatus", FALSE, "", Null,
                    IF t.info # Null THEN Some(Val(t.info).expiresOn) ELSE Null,
                    t.info # Null, t.acq)
                 EXCEPT !.mode = currentMode]
    /\ acquired' = (acquired \/ t.acq = "ok")
    /\ UNCHANGED <<now, tmVars, srvVars, config, currentMode, manualToken>>

(* A variant of setAccessToken that leaves the mode as it is.               *)
SetAccessTokenKeepsMode(accessToken, expiresOn) ==
  /\ manualToken' =
       Some(TokenInfo(accessToken,
                      IF expiresOn # Null THEN Val(expiresOn) ELSE now + 3600 * 1000))
  /\ amLast' = Call("setAccessToken", FALSE, "", Some(accessToken), expiresOn, FALSE, "none")
  /\ acquired' = TRUE
  /\ UNCHANGED <<now, tmVars, srvVars, config, currentMode, deviceCodeAuth, clientCredentialsAuth>>

(* A variant of setAccessToken whose default expiry is 3600 ms from now.    *)
SetAccessTokenShortDefault(accessToken, expiresOn) ==
  /\ currentMode' = "client_token"
  /\ manualToken' =
       Some(TokenInfo(accessToken,
                      IF expiresOn # Null THEN Val(expiresOn) ELSE now + 3600))
  /\ amLast' = Call("setAccessToken", FALSE, "", Some(accessToken), expiresOn, FALSE, "none")
  /\ acquired' = TRUE
  /\ UNCHANGED <<now, tmVars, srvVars, config, deviceCodeAuth, clientCredentialsAuth>>

(* AuthManager.setAccessToken(accessToken, expiresOn)                       *)
SetAccessToken(accessToken, expiresOn) ==
  /\ currentMode' = "client_token"
  /\ manualToken' =
       Some(TokenInfo(accessToken,
                      IF expiresOn # Null THEN Val(expiresOn) ELSE now + 3600 * 1000))
  /\ amLast' = Call("setAccessToken", FALSE, "", Some(accessToken), expiresOn, FALSE, "none")
  /\ acquired' = TRUE
  /\ UNCHANGED <<now, tmVars, srvVars, config, deviceCodeAuth, clientCredentialsAuth>>

(* A variant of initiateDeviceCodeFlow that returns the token of the       *)
(* result without keeping it as the cached record.                         *)
InitiateDeviceCodeFlowNoCache ==
  \E o \in MsalOutcomes(DeviceTokens) :
    LET d == IF deviceCodeAuth = Null THEN NewDeviceCodeAuth ELSE Val(deviceCodeAuth) IN
    /\ currentMode' = "device_code"
    /\ \/ /\ o.kind = "result"
          /\ \E n \in AccountsAfterSignIn(d.accounts) :
               deviceCodeAuth' = Some([d EXCEPT !.accounts = n])
          /\ amLast' = Call("initiateDeviceCodeFlow", FALSE, "", Some(o.accessToken),
                            Some(toTokenInfo(o).expiresOn), FALSE, "ok")
       \/ /\ o.kind = "null"
          /\ deviceCodeAuth' = Some(d)
          /\ amLast' = Call("initiateDeviceCodeFlow", TRUE,
                            "Device code authentication failed", Null, Null, FALSE, "failed")
       \/ /\ o.kind = "throw"
          /\ deviceCodeAuth' = Some(d)
          /\ amLast' = Call("initiateDeviceCodeFlow", TRUE, "msal error", Null, Null,
                            FALSE, "failed")
    /\ acquired' = (acquired \/ o.kind = "result")
    /\ UNCHANGED <<now, tmVars, srvVars, config, manualToken, clientCredentialsAuth>>

(* A variant of initiateDeviceCodeFlow that selects device_code only once  *)
(* the flow has given a result.                                            *)
InitiateDeviceCodeFlowSwitchesLate ==
  \E o \in MsalOutcomes(DeviceTokens) :
    LET d == IF deviceCodeAuth = Null THEN NewDeviceCodeAuth ELSE Val(deviceCodeAuth) IN
    /\ \/ /\ o.kind = "result"
          /\ currentMode' = "device_code"
          /\ \E n \in AccountsAfterSignIn(d.accounts) :
               deviceCodeAuth' =
                 Some([cachedToken |-> Some(toTokenInfo(o)), accounts |-> n])
          /\ amLast' = Call("initiateDeviceCodeFlow", FALSE, "", Some(o.accessToken),
                            Some(toTokenInfo(o).expiresOn), FALSE, "ok")
       \/ /\ o.kind = "null"
          /\ UNCHANGED currentMode
          /\ deviceCodeAuth' = Some(d)
          /\ amLast' = Call("initiateDeviceCodeFlow", TRUE,
                            "Device code authentication failed", Null, Null, FALSE, "failed")
       \/ /\ o.kind = "throw"
          /\ UNCHANGED currentMode
          /\ deviceCodeAuth' = Some(d)
          /\ amLast' = Call("initiateDeviceCodeFlow", TRUE, "msal error", Null, Null,
                            FALSE, "failed")
    /\ acquired' = (acquired \/ o.kind = "result")
    /\ UNCHANGED <<now, tmVars, srvVars, config, manualToken, clientCredentialsAuth>>

(* AuthManager.initiateDeviceCodeFlow, with o the outcome of               *)
(* acquireTokenByDeviceCode; a result also puts the account into MSAL's    *)
(* cache.                                                                  *)
InitiateDeviceCodeFlow ==
  \E o \in MsalOutcomes(DeviceTokens) :
    LET d == IF deviceCodeAuth = Null THEN NewDeviceCodeAuth ELSE Val(deviceCodeAuth) IN
    /\ currentMode' = "device_code"
    /\ \/ /\ o.kind = "result"
          /\ \E n \in AccountsAfterSignIn(d.accounts) :
               deviceCodeAuth' =
                 Some([cachedToken |-> Some(toTokenInfo(o)), accounts |-> n])
          /\ amLast' = Call("initiateDeviceCodeFlow", FALSE, "", Some(o.accessToken),
                            Some(toTokenInfo(o).expiresOn), FALSE, "ok")
       \/ /\ o.kind = "null"
          /\ deviceCodeAuth' = Some(d)
          /\ amLast' = Call("initiateDeviceCodeFlow", TRUE,
                            "Device code authentication failed", Null, Null, FALSE, "failed")
       \/ /\ o.kind = "throw"
          /\ deviceCodeAuth' = Some(d)
          /\ amLast' = Call("initiateDeviceCodeFlow", TRUE, "msal error", Null, Null,
                            FALSE, "failed")
    /\ acquired' = (acquired \/ o.kind = "result")
    /\ UNCHANGED <<now, tmVars, srvVars, config, manualToken, clientCredentialsAuth>>

(* A variant of signOut that leaves the accounts in MSAL's cache.           *)
SignOutKeepsAccounts ==
  /\ deviceCodeAuth' =
       IF deviceCodeAuth # Null
       THEN Some([Val(deviceCodeAuth) EXCEPT !.cachedToken = Null])
       ELSE deviceCodeAuth
  /\ clientCredentialsAuth' =
       IF clientCredentialsAuth # Null
       THEN Some([cachedToken |-> Null])
       ELSE clientCredentialsAuth
  /\ manualToken' = Null
  /\ amLast' = Call("signOut", FALSE, "", Null, Null, FALSE, "none")
  /\ UNCHANGED <<now, tmVars, srvVars, config, currentMode, acquired>>

(* A variant of signOut that removes the first account only.               *)
SignOutRemovesFirstAccount ==
  /\ deviceCodeAuth' =
       IF deviceCodeAuth # Null
       THEN Some([cachedToken |-> Null,
                  accounts |-> IF Val(deviceCodeAuth).accounts > 0
                               THEN Val(deviceCodeAuth).accounts - 1
                               ELSE 0])
       ELSE deviceCodeAuth
  /\ clientCredentialsAuth' =
       IF clientCredentialsAuth # Null
       THEN Some([cachedToken |-> Null])
       ELSE clientCredentialsAuth
  /\ manualToken' = Null
  /\ amLast' = Call("signOut", FALSE, "", Null, Null, FALSE, "none")
  /\ UNCHANGED <<now, tmVars, srvVars, config, currentMode, acquired>>

(* A variant of signOut that also goes back to the configured mode.        *)
SignOutResetsMode ==
  /\ deviceCodeAuth' =
       IF deviceCodeAuth # Null
       THEN Some([cachedToken |-> Null, accounts |-> 0])
       ELSE deviceCodeAuth
  /\ clientCredentialsAuth' =
       IF clientCredentialsAuth # Null
       THEN Some([cachedToken |-> Null])
       ELSE clientCredentialsAuth
  /\ manualToken' = Null
  /\ currentMode' = config.authMode
  /\ amLast' = Call("signOut", FALSE, "", Null, Null, FALSE, "none")
  /\ UNCHANGED <<now, tmVars, srvVars, config, acquired>>

(* AuthManager.signOut, with DeviceCodeAuth.signOut and                    *)
(* ClientCredentialsAuth.clearCache.  The account cache of MSAL is the     *)
(* in-memory one, whose getAllAccounts and removeAccount do not fail.      *)
SignOut ==
  /\ deviceCodeAuth' =
       IF deviceCodeAuth # Null
       THEN Some([cachedToken |-> Null, accounts |-> 0])
       ELSE deviceCodeAuth
  /\ clientCredentialsAuth' =
       IF clientCredentialsAuth # Null
       THEN Some([cachedToken |-> Null])
       ELSE clientCredentialsAuth
  /\ manualToken' = Null
  /\ amLast' = Call("signOut", FALSE, "", Null, Null, FALSE, "none")
  /\ UNCHANGED <<now, tmVars, srvVars, config, currentMode, acquired>>

(* AuthManager.getMode()                                                    *)
getMode == currentMode

(* A variant of setMode that builds the strategy of the mode it selects,   *)
(* as the constructor does.                                                *)
SetModeConstructsStrategy(mode) ==
  /\ currentMode' = mode
  /\ deviceCodeAuth' =
       IF mode = "device_code" /\ deviceCodeAuth = Null
       THEN Some(NewDeviceCodeAuth)
       ELSE deviceCodeAuth
  /\ clientCredentialsAuth' =
       IF mode = "client_credentials" /\ clientCredentialsAuth = Null
       THEN Some(NewClientCredentialsAuth)
       ELSE clientCredentialsAuth
  /\ amLast' = Call("setMode", FALSE, "", Null, Null, FALSE, "none")
  /\ UNCHANGED <<now, tmVars, srvVars, config, manualToken, acquired>>

(* A variant of setMode that drops the manual token when it selects a      *)
(* mode other than client_token.                                           *)
SetModeDropsManualToken(mode) ==
  /\ currentMode' = mode
  /\ manualToken' = IF mode = "client_token" THEN manualToken ELSE Null
  /\ amLast' = Call("setMode", FALSE, "", Null, Null, FALSE, "none")
  /\ UNCHANGED <<now, tmVars, srvVars, config, deviceCodeAuth, clientCredentialsAuth,
                 acquired>>

(* AuthManager.setMode(mode)                                                *)
SetMode(mode) ==
  /\ currentMode' = mode
  /\ amLast' = Call("setMode", FALSE, "", Null, Null, FALSE, "none")
  /\ UNCHANGED <<now, tmVars, srvVars, config, manualToken, deviceCodeAuth, clientCredentialsAuth,
                 acquired>>

(* What the Graph or Azure API can answer to a request of callApi.  The     *)
(* body of an answer that is not ok is one of:                             *)
(*   json_error_message    {"error":{"message":"Resource not found"}}      *)
(*   json_error_nomessage  {"error":{"code":"NotFound"}}                   *)
(*   json_error_null       {"error":null}                                  *)
(*   json_no_error         {"message":"Resource not found"}                *)
(*   json_malformed        content-type application/json, an empty body    *)
(*   text                  a body of another content type                  *)
GraphOk == [kind |-> "ok", status |-> 200, statusText |-> "OK", data |-> "json"]

GraphErrors ==
  [kind : {"http_error"}, status : {404}, statusText : {"Not Found"},
   data : {"json_error_message", "json_error_nomessage", "json_error_null",
           "json_no_error", "json_malformed", "text"}]

GraphNetworkFailure ==
  [kind |-> "network", status |-> 0, statusText |-> "", data |-> "fetch failed"]

GraphResponses == {GraphOk, GraphNetworkFailure} \cup GraphErrors

(* The message of the error callApi ends with on a response that is not    *)
(* ok: response.json() rejects with a SyntaxError on a body that is not    *)
(* JSON, reading .message of the null error member raises a TypeError, and *)
(* otherwise callApi throws the message it has built.                      *)
callApiErrorMessage(g) ==
  CASE g.data = "json_malformed" -> "Unexpected end of JSON input"
    [] g.data = "json_error_message" -> "Resource not found"
    [] g.data = "json_error_nomessage" ->
         "Request failed with status " \o ToString(g.status)
    [] g.data = "json_error_null" ->
         "Cannot read properties of null (reading 'message')"
    [] OTHER -> "HTTP " \o ToString(g.status) \o ": " \o g.statusText

(* tokenInfo?.accessToken ?? null                                           *)
accessTokenOf(info) == IF info # Null THEN Some(Val(info).accessToken) ELSE Null

NotAuthenticated == "Not authenticated. Please sign in first."

(* The outcome of callApi once it holds a token: the request is sent.       *)
Forwarded(t, g) ==
  [Call("callApi", g.kind # "ok",
        CASE g.kind = "ok" -> ""
          [] g.kind = "http_error" -> callApiErrorMessage(g)
          [] OTHER -> g.data,
        accessTokenOf(t.info), Null, FALSE, t.acq)
     EXCEPT !.http = "sent", !.resp = g]

(* A variant of callApi that forwards the request whatever the token.       *)
CallApiNoTokenCheck ==
  \E o \in OutcomesForMode :
   LET t == getTokenInfo(o) IN
   \E g \in IF ~t.threw THEN GraphResponses ELSE {GraphOk} :
    /\ deviceCodeAuth' = t.dca
    /\ clientCredentialsAuth' = t.cca
    /\ amLast' =
         IF t.threw
         THEN Call("callApi", TRUE, t.msg, Null, Null, FALSE, t.acq)
         ELSE Forwarded(t, g)
    /\ acquired' = (acquired \/ t.acq = "ok")
    /\ UNCHANGED <<now, tmVars, srvVars, config, currentMode, manualToken>>

(* The answers the API can give to callApi: they matter only when the      *)
(* request is sent.                                                        *)
AnswersFor(t) ==
  IF ~t.threw /\ Truthy(accessTokenOf(t.info)) THEN GraphResponses ELSE {GraphOk}

(* GraphClient.callApi(request), with g the answer of the API should the   *)
(* request be sent.                                                        *)
CallApi ==
  \E o \in OutcomesForMode :
   LET t == getTokenInfo(o) IN
   \E g \in AnswersFor(t) :
    /\ deviceCodeAuth' = t.dca
    /\ clientCredentialsAuth' = t.cca
    /\ amLast' =
         IF t.threw
         THEN Call("callApi", TRUE, t.msg, Null, Null, FALSE, t.acq)
         ELSE IF ~Truthy(accessTokenOf(t.info))
         THEN Call("callApi", TRUE, NotAuthenticated, accessTokenOf(t.info), Null,
                   FALSE, t.acq)
         ELSE Forwarded(t, g)
    /\ acquired' = (acquired \/ t.acq = "ok")
    /\ UNCHANGED <<now, tmVars, srvVars, config, currentMode, manualToken>>

(* The clock moves on to a later instant.                                   *)
TickAM ==
  /\ \E t \in AMInstants : t > now /\ now' = t
  /\ amLast' = Call("tick", FALSE, "", Null, Null, FALSE, "none")
  /\ UNCHANGED <<tmVars, srvVars, config, currentMode, manualToken, deviceCodeAuth,
                 clientCredentialsAuth, acquired>>

NextAM ==
  \/ GetAccessToken
  \/ GetAuthStatus
  \/ \E tok \in ManualTokens :
       \E exp \in {Null, Some(now - 1000), Some(now + 60 * 1000)} :
         SetAccessToken(tok, exp)
  \/ InitiateDeviceCodeFlow
  \/ SignOut
  \/ \E m \in AuthModes : SetMode(m)
  \/ CallApi
  \/ TickAM

-----------------------------------------------------------------------------
(* runServer: createConfig reads the environment, createServer builds the  *)
(* server from the config.  Of ServerConfig the model keeps the members    *)
(* the construction depends on: authMode, tenantId, clientSecret, apiKey.  *)

EnvAuthModes ==
  {Null, Some(""), Some("interactive"), Some("clientCredentials"), Some("invalid")}

EnvTenantIds == {Null, Some("common"), Some("contoso")}

EnvClientSecrets == {Null, Some(""), Some("s3cret")}

EnvApiKeys == {Null, Some(""), Some("k3y")}

Envs ==
  [AZURE_AUTH_MODE : EnvAuthModes, AZURE_TENANT_ID : EnvTenantIds,
   AZURE_CLIENT_SECRET : EnvClientSecrets, MCP_API_KEY : EnvApiKeys]

(* a ?? b                                                                   *)
Coalesce(a, b) == IF a # Null THEN Val(a) ELSE b

Ok(value) == [threw |-> FALSE, msg |-> "", value |-> Some(value)]

Throw(msg) == [threw |-> TRUE, msg |-> msg, value |-> Null]

(* A variant of parseAuthMode that tests for undefined instead of          *)
(* falsiness.                                                              *)
parseAuthModeStrict(value) ==
  IF value = Null \/ value = Some("interactive") THEN Ok("interactive")
  ELSE IF Val(value) = "clientCredentials" THEN Ok("clientCredentials")
  ELSE Throw("Invalid AZURE_AUTH_MODE: \"" \o Val(value)
               \o "\". Must be \"interactive\" or \"clientCredentials\".")

parseAuthMode(value) ==
  IF ~Truthy(value) \/ Val(value) = "interactive" THEN Ok("interactive")
  ELSE IF Val(value) = "clientCredentials" THEN Ok("clientCredentials")
  ELSE Throw("Invalid AZURE_AUTH_MODE: \"" \o Val(value)
               \o "\". Must be \"interactive\" or \"clientCredentials\".")

(* A variant of validateConfig without the test of the client secret.      *)
validateConfigNoSecretCheck(cfg) ==
  IF cfg.authMode = "clientCredentials" /\ cfg.tenantId = "common"
  THEN Throw("Client credentials auth requires a specific tenant ID, not \"common\".")
  ELSE Ok(cfg)

(* validateConfig: throws, or returns (here: hands back the config).       *)
validateConfig(cfg) ==
  IF cfg.authMode = "clientCredentials"
  THEN IF cfg.tenantId = "common"
       THEN Throw("Client credentials auth requires a specific tenant ID, not \"common\".")
       ELSE IF cfg.clientSecret = ""
       THEN Throw("Client credentials auth requires AZURE_CLIENT_SECRET.")
       ELSE Ok(cfg)
  ELSE Ok(cfg)

(* createConfig() on the environment e.                                    *)
createConfig(e) ==
  LET authMode == parseAuthMode(e.AZURE_AUTH_MODE) IN
  IF authMode.threw THEN authMode
  ELSE validateConfig(
         [clientSecret |-> Coalesce(e.AZURE_CLIENT_SECRET, ""),
          tenantId |-> Coalesce(e.AZURE_TENANT_ID, "common"),
          authMode |-> Val(authMode.value),
          apiKey |-> e.MCP_API_KEY])

(* What a strategy object is built from.                                   *)
Credentials(cfg) == [tenantId |-> cfg.tenantId, clientSecret |-> cfg.clientSecret]

(* A variant of createServer that builds the AzureProvider in every mode.  *)
createServerAlwaysProvider(cfg) ==
  LET isClientCredentials == cfg.authMode = "clientCredentials" IN
  [authProvider |-> Some(Credentials(cfg)),
   tokenManager |-> IF isClientCredentials THEN Some(Credentials(cfg)) ELSE Null,
   authenticate |-> Truthy(cfg.apiKey),
   config |-> cfg]

(* createServer(cfg): the AzureProvider and the token manager it returns   *)
(* (each absent, or built from the config's credentials), and whether the  *)
(* server got an authenticate callback.                                    *)
createServer(cfg) ==
  LET isClientCredentials == cfg.authMode = "clientCredentials" IN
  [authProvider |-> IF isClientCredentials THEN Null ELSE Some(Credentials(cfg)),
   tokenManager |-> IF isClientCredentials THEN Some(Credentials(cfg)) ELSE Null,
   authenticate |-> Truthy(cfg.apiKey),
   config |-> cfg]

(* A request to the server: its Authorization header and the api_key       *)
(* parameter of its URL, each possibly absent.                             *)
AuthorizationHeaders ==
  {Null, Some("Bearer k3y"), Some("bearer  k3y"), Some("k3y"), Some("Bearer wrong"),
   Some("Bearer "), Some("Bearer")}

QueryApiKeys == {Null, Some("k3y"), Some("wrong")}

Requests == [authorization : AuthorizationHeaders, api_key : QueryApiKeys]

NoRequest == [authorization |-> Null, api_key |-> Null]

(* String.toLowerCase on the letters a scheme name is written with.         *)
RECURSIVE ToLowerCase(_)
ToLowerCase(str) ==
  IF str = "" THEN ""
  ELSE LET ch == SubSeq(str, 1, 1) IN
       (CASE ch = "B" -> "b" [] ch = "E" -> "e" [] ch = "A" -> "a" [] ch = "R" -> "r"
          [] OTHER -> ch)
         \o ToLowerCase(SubSeq(str, 2, Len(str)))

(* str without its leading blanks.                                          *)
RECURSIVE TrimStart(_)
TrimStart(str) ==
  IF str # "" /\ SubSeq(str, 1, 1) = " " THEN TrimStart(SubSeq(str, 2, Len(str)))
  ELSE str

(* authHeader.replace(/^Bearer\s+/i, ""): the word, in any case, and the   *)
(* blanks after it (one at least) are cut off; any other string is left    *)
(* as it is.                                                               *)
StripBearer(authHeader) ==
  IF /\ Len(authHeader) >= 7
     /\ ToLowerCase(SubSeq(authHeader, 1, 6)) = "bearer"
     /\ SubSeq(authHeader, 7, 7) = " "
  THEN TrimStart(SubSeq(authHeader, 7, Len(authHeader)))
  ELSE authHeader

(* A variant of the authenticate callback that reads the header only.      *)
authenticateHeaderOnly(cfg, request) ==
  LET headerKey ==
        IF request.authorization # Null
        THEN Some(StripBearer(Val(request.authorization)))
        ELSE Null
  IN IF headerKey # cfg.apiKey THEN Throw("Unauthorized") ELSE Ok("session")

(* A variant of the authenticate callback that lets a request in when      *)
(* either of its two keys is the configured one.                           *)
authenticateEitherKey(cfg, request) ==
  LET headerKey ==
        IF request.authorization # Null
        THEN Some(StripBearer(Val(request.authorization)))
        ELSE Null
  IN IF headerKey # cfg.apiKey /\ request.api_key # cfg.apiKey
     THEN Throw("Unauthorized")
     ELSE Ok("session")

(* The authenticate callback createServer gives FastMCP when the config    *)
(* has an API key (the URL of a request is never empty).                   *)
authenticate(cfg, request) ==
  LET headerKey ==
        IF request.authorization # Null
        THEN Some(StripBearer(Val(request.authorization)))
        ELSE Null
      queryKey == IF ~Truthy(headerKey) THEN request.api_key ELSE Null
      providedKey == IF headerKey # Null THEN headerKey ELSE queryKey
  IN IF providedKey # cfg.apiKey THEN Throw("Unauthorized") ELSE Ok("session")

Step(op, threw, msg) == [op |-> op, threw |-> threw, msg |-> msg, req |-> NoRequest]

DefaultEnv ==
  [AZURE_AUTH_MODE |-> Null, AZURE_TENANT_ID |-> Null, AZURE_CLIENT_SECRET |-> Null,
   MCP_API_KEY |-> Null]

(* The process before runServer has done anything, with environment e.     *)
SrvStart(e) ==
  /\ env = e
  /\ srvConfig = Null
  /\ server = Null
  /\ srvLast = Step("start", FALSE, "")

(* runServer: const config = createConfig(); a throw ends the process.     *)
CreateConfig ==
  /\ srvLast.op = "start"
  /\ LET r == createConfig(env) IN
     \/ /\ r.threw
        /\ srvLast' = Step("createConfig", TRUE, r.msg)
        /\ UNCHANGED srvConfig
     \/ /\ ~r.threw
        /\ srvConfig' = r.value
        /\ srvLast' = Step("createConfig", FALSE, "")
  /\ UNCHANGED <<now, tmVars, amVars, env, server>>

(* runServer: const { server } = createServer(config)                      *)
CreateServer ==
  /\ srvConfig # Null
  /\ server = Null
  /\ server' = Some(createServer(Val(srvConfig)))
  /\ srvLast' = Step("createServer", FALSE, "")
  /\ UNCHANGED <<now, tmVars, amVars, env, srvConfig>>

(* A request reaches the server: FastMCP runs the authenticate callback    *)
(* when the server has one, and lets the request in when it has none.      *)
Authenticate(request) ==
  /\ server # Null
  /\ LET r == IF Val(server).authenticate
              THEN authenticate(Val(server).config, request)
              ELSE Ok("session")
     IN srvLast' = [Step("authenticate", r.threw, r.msg) EXCEPT !.req = request]
  /\ UNCHANGED <<now, tmVars, amVars, env, srvConfig, server>>

NextSrv ==
  \/ CreateConfig
  \/ CreateServer
  \/ \E request \in Requests : Authenticate(request)

-----------------------------------------------------------------------------
DefaultConfig == [authMode |-> "client_token", clientSecret |-> Null]

InitTM ==
  /\ now = 0
  /\ \E cfg \in TMConfigs : createTokenManager(cfg)
  /\ AMConstruct(DefaultConfig)
  /\ SrvStart(DefaultEnv)

InitAM ==
  /\ now = 0
  /\ createTokenManager(DefaultTMConfig)
  /\ \E cfg \in Configs : AMConstruct(cfg)
  /\ SrvStart(DefaultEnv)

InitSrv ==
  /\ now = 0
  /\ createTokenManager(DefaultTMConfig)
  /\ AMConstruct(DefaultConfig)
  /\ \E e \in Envs : SrvStart(e)

SpecTM == InitTM /\ [][NextTM]_vars

SpecAM == InitAM /\ [][NextAM]_vars

SpecSrv == InitSrv /\ [][NextSrv]_vars

-----------------------------------------------------------------------------
(* Properties of createTokenManager, checked under SpecTM.                  *)

AllIdle == \A c \in Callers : pc[c] = "idle"

(* C1, as stated: when a getToken call has just fetched a token and a      *)
(* second call follows with no clock advance (and nothing else in flight), *)
(* the second call sends no request and returns the identical token.       *)
C1_IdempotentCacheHit ==
  [][\A c \in Callers :
       (tmLast.kind = "fetched" /\ lastAcq.at = now /\ AllIdle /\ GetSession(c))
         => /\ tmLast'.kind = "hit"
            /\ tmLast'.token = tmLast.token
            /\ fetchCount' = fetchCount
            /\ pc' = pc]_vars

(* C1, amended: the same, provided the first acquisition's expires_in is   *)
(* more than the 300 s refresh buffer, so that the record it stored is     *)
(* valid at the instant of the second call.                                *)
C1_CacheHitWhenBeyondBuffer ==
  [][\A c \in Callers :
       (/\ tmLast.kind = "fetched"
        /\ lastAcq.at = now
        /\ lastAcq.expires_in * 1000 > 300000
        /\ AllIdle
        /\ GetSession(c))
         => /\ tmLast'.kind = "hit"
            /\ tmLast'.token = tmLast.token
            /\ fetchCount' = fetchCount
            /\ pc' = pc]_vars

(* A call returned the cached token at the very instant the one and only   *)
(* acquisition stored it.                                                  *)
C1_Witness ==
  /\ tmLast.kind = "hit"
  /\ lastAcq.at = now
  /\ fetchCount = 1
  /\ AllIdle
  /\ tmLast.token = Val(session).accessToken

(* C2: after an acquisition that returned expires_in = 360, a getToken     *)
(* call made 120 s later sends a second request, and the token a           *)
(* successful request returns is the newly acquired one; a call made only  *)
(* 30 s later returns the cached token and sends nothing.                  *)
C2_RefreshBufferBoundary ==
  [][/\ \A c \in Callers :
          (session # Null /\ lastAcq.expires_in = 360 /\ GetSession(c))
            => /\ (now = lastAcq.at + 120000)
                    => /\ pc'[c] = "fetching"
                       /\ fetchCount' = fetchCount + 1
               /\ (now = lastAcq.at + 30000)
                    => /\ tmLast' = Returned("hit", Val(session).accessToken)
                       /\ fetchCount' = fetchCount
                       /\ pc' = pc
     /\ \A c \in Callers : \A r \in OkResponses :
          FetchTokenReturn(c, r)
            => /\ tmLast' = Returned("fetched", r.access_token)
               /\ Val(session').accessToken = r.access_token]_vars

(* 120 s after the first acquisition (expires_in = 360) a second request   *)
(* has just been sent.                                                     *)
C2_Witness ==
  \E c \in Callers :
    /\ pc[c] = "fetching"
    /\ tmLast = Sent
    /\ lastAcq.expires_in = 360
    /\ now = lastAcq.at + 120000
    /\ fetchCount = 2

(* C7: a non-2xx answer whose JSON body has error_description makes        *)
(* getToken fail with exactly that text, and with the error member when    *)
(* error_description is absent; the 401 invalid_client answer fails with   *)
(* exactly "Invalid client credentials".                                   *)
C7_StructuredErrorExtraction ==
  (tmLast.kind = "failed" /\ tmLast.status \in Statuses)
    => LET errorJson == JSONParse(tmLast.body) IN
       /\ (errorJson.kind = "object" /\ errorJson.error_description # Null)
            => tmLast.msg = Val(errorJson.error_description)
       /\ (/\ errorJson.kind = "object"
           /\ errorJson.error_description = Null
           /\ errorJson.error # Null)
            => tmLast.msg = Val(errorJson.error)
       /\ tmLast.body = BodyInvalidClient
            => tmLast.msg = "Invalid client credentials"
       /\ tmLast.body = BodyErrorOnly => tmLast.msg = "invalid_client"

(* The 401 invalid_client answer made getToken fail with its               *)
(* error_description.                                                      *)
C7_Witness ==
  /\ tmLast.kind = "failed"
  /\ tmLast.status = 401
  /\ tmLast.body = BodyInvalidClient
  /\ tmLast.msg = "Invalid client credentials"

(* C8: a non-2xx answer whose body does not parse as JSON makes getToken   *)
(* fail with "Token request failed: <status> - <body>", which contains the *)
(* status code and the raw body.                                           *)
C8_UnstructuredErrorExtraction ==
  (/\ tmLast.kind = "failed"
   /\ tmLast.status \in Statuses
   /\ JSONParse(tmLast.body).kind = "fail")
    => /\ Contains(tmLast.msg, ToString(tmLast.status))
       /\ Contains(tmLast.msg, tmLast.body)
       /\ (tmLast.status = 500 /\ tmLast.body = BodyPlainText)
            => tmLast.msg = "Token request failed: 500 - Internal Server Error"

(* The 500 plain-text answer made getToken fail with a message holding     *)
(* the status and the body.                                                *)
C8_Witness ==
  /\ tmLast.kind = "failed"
  /\ tmLast.status = 500
  /\ tmLast.body = BodyPlainText
  /\ Contains(tmLast.msg, "500")
  /\ Contains(tmLast.msg, "Internal Server Error")

(* C11: a getToken call sends at most one request to the token endpoint:   *)
(* a call that starts sends at most one, while a call awaits its answer    *)
(* every further request comes from another call that starts, and a        *)
(* failing answer ends the call in failure with no request sent and the    *)
(* stored session left as it was.                                          *)
C11_NoAutomaticRetry ==
  [][\A c \in Callers :
       /\ GetSession(c) => fetchCount' <= fetchCount + 1
       /\ (pc[c] = "fetching" /\ fetchCount' # fetchCount)
            => \E d \in Callers \ {c} :
                 pc[d] = "idle" /\ pc'[d] = "fetching" /\ fetchCount' = fetchCount + 1
       /\ \A r \in ErrorResponses \cup {NetworkFailure} :
            FetchTokenReturn(c, r)
              => /\ pc'[c] = "idle"
                 /\ tmLast'.kind = "failed"
                 /\ fetchCount' = fetchCount
                 /\ session' = session]_vars

(* The one request of the only call so far was answered with a failure,    *)
(* and the call has ended in failure with nothing in flight.               *)
C11_Witness ==
  /\ tmLast.kind = "failed"
  /\ fetchCount = 1
  /\ AllIdle
  /\ session = Null

(* C17, as stated: a token manager whose secret is missing or whose        *)
(* tenant is "common" sends no request to the token endpoint: its          *)
(* getToken fails before.                                                  *)
C17_FailFastAtAcquisition ==
  BadCredentials(tmConfig) => (fetchCount = 0 /\ AllIdle)

(* C22: a successful acquisition stores a record with the token of the     *)
(* response and the expiry now + expires_in * 1000 ms, now being the       *)
(* instant the response is processed: with expires_in = 3600 the expiry is *)
(* one hour (3 600 000 ms) after that instant.                             *)
C22_ExpiryIsNowPlusExpiresIn ==
  [][\A c \in Callers : \A r \in OkResponses :
       FetchTokenReturn(c, r)
         => /\ session' # Null
            /\ Val(session').accessToken = r.access_token
            /\ Val(session').expiresAt = now + r.expires_in * 1000
            /\ r.expires_in = 3600 => Val(session').expiresAt - now = 60 * 60 * 1000]_vars

(* A response with expires_in = 3600 was processed after the clock had     *)
(* moved, and the stored record expires one hour after that instant.       *)
C22_Witness ==
  /\ tmLast.kind = "fetched"
  /\ lastAcq.at = now
  /\ now > 0
  /\ lastAcq.expires_in = 3600
  /\ session # Null
  /\ Val(session).expiresAt = now + 3600000

(* C23: a record acquired with expires_in zero or negative is never served *)
(* as a cache hit: the getToken call that finds it sends a new request.    *)
C23_NonPositiveLifetimeNeverCached ==
  [][\A c \in Callers :
       (session # Null /\ lastAcq.expires_in <= 0 /\ GetSession(c))
         => /\ tmLast' = Sent
            /\ pc'[c] = "fetching"
            /\ fetchCount' = fetchCount + 1]_vars

(* At the very instant a record with a negative expires_in was stored, the *)
(* next getToken call has sent a second request.                           *)
C23_Witness ==
  \E c \in Callers :
    /\ pc[c] = "fetching"
    /\ tmLast = Sent
    /\ session # Null
    /\ lastAcq.expires_in < 0
    /\ lastAcq.at = now
    /\ fetchCount = 2

(* C28: the token manager holds one session; a successful acquisition      *)
(* replaces it as a whole by the session of its response, nothing else     *)
(* changes it, and the token a getToken call returns, from the cache or    *)
(* from its own acquisition, is the token of the session stored at that    *)
(* moment, so never the token of a session that has been replaced.         *)
C28_OneLiveRecord ==
  [][/\ \A c \in Callers : \A r \in OkResponses :
          FetchTokenReturn(c, r)
            => session' = Some([accessToken |-> r.access_token,
                                expiresAt |-> now + r.expires_in * 1000])
     /\ session' # session
          => \E c \in Callers : \E r \in OkResponses : FetchTokenReturn(c, r)
     /\ tmLast'.kind \in {"hit", "fetched"}
          => (session' # Null /\ tmLast'.token = Val(session').accessToken)]_vars

(* A getToken call returned the cached tokB, the session that holds it     *)
(* having replaced the session of tokA.                                    *)
C28_Witness ==
  /\ tmLast.kind = "hit"
  /\ tmLast.token = "tokB"
  /\ lastAcq.prev = "tokA"
  /\ session # Null
  /\ Val(session).accessToken = "tokB"

(* The getToken calls that await the answer of the token endpoint.          *)
InFlight == {c \in Callers : pc[c] = "fetching"}

(* C31: acquisition is not serialised.  A getToken call that starts while  *)
(* no valid session is stored sends a request of its own, whether or not   *)
(* another call already awaits the endpoint, and leaves the calls in       *)
(* flight as they are; so every call in flight has its own request.        *)
C31_AcquisitionNotSerialised ==
  [][\A c \in Callers :
       (pc[c] = "idle" /\ pc'[c] # "idle")
         => /\ ~(session # Null /\ isTokenValid(Val(session)))
            /\ pc'[c] = "fetching"
            /\ fetchCount' = fetchCount + 1
            /\ tmLast' = Sent
            /\ InFlight' = InFlight \cup {c}
            /\ Cardinality(InFlight') <= fetchCount']_vars

(* Two getToken calls await the token endpoint at the same time, each with *)
(* its own request, no session having been stored yet.                     *)
C31_Witness ==
  /\ Cardinality(InFlight) = 2
  /\ fetchCount = 2
  /\ session = Null
  /\ tmLast = Sent

(* C32: with getToken calls overlapping in any order, a call that returns *)
(* from the cache returns the token of the stored session, which passes    *)
(* the validity check at that instant; a call that returns from its own    *)
(* acquisition returns the token of the response it received; and the      *)
(* stored session is at every moment, so also once all calls have          *)
(* completed, the session of the acquisition that completed last: its      *)
(* token and its expiry both come from that one response.                  *)
C32_SessionIsLastAcquisition ==
  /\ tmLast.kind = "hit"
       => /\ session # Null
          /\ isTokenValid(Val(session))
          /\ tmLast.token = Val(session).accessToken
  /\ tmLast.kind = "fetched"
       => /\ lastAcq.at = now
          /\ tmLast.token = lastAcq.token
  /\ session = Null <=> lastAcq = NoAcq
  /\ session # Null
       => session = Some([accessToken |-> lastAcq.token,
                          expiresAt |-> lastAcq.at + lastAcq.expires_in * 1000])

(* Two overlapping calls have both completed: the second answer, tokB with *)
(* a lifetime of 360 s, arrived while the session of the first, tokA, was  *)
(* still valid, and the stored session is the one of tokB as a whole.      *)
C32_Witness ==
  /\ AllIdle
  /\ fetchCount = 2
  /\ lastAcq.raced
  /\ lastAcq.prev = "tokA"
  /\ lastAcq.token = "tokB"
  /\ lastAcq.expires_in = 360
  /\ tmLast = Returned("fetched", "tokB")
  /\ session = Some([accessToken |-> "tokB", expiresAt |-> now + 360000])

(* C33: the step in which a getToken call fails leaves the stored session *)
(* exactly as it was, absent or not, and stores nothing of the failed      *)
(* answer; and when the session is absent or stale after the failure, the  *)
(* next getToken call sends a new request to the token endpoint.           *)
C33_FailedAcquisitionLeavesCache ==
  [][/\ (\E c \in Callers : pc[c] = "fetching" /\ pc'[c] = "idle" /\ tmLast'.kind = "failed")
          => /\ session' = session
             /\ lastAcq' = lastAcq
     /\ \A c \in Callers :
          (/\ tmLast.kind = "failed"
           /\ ~(session # Null /\ isTokenValid(Val(session)))
           /\ GetSession(c))
            => /\ tmLast' = Sent
               /\ pc'[c] = "fetching"
               /\ fetchCount' = fetchCount + 1]_vars

(* The token endpoint rejected the second request with status 401: the     *)
(* call has failed, and the stale session of the first acquisition is      *)
(* still the stored one.                                                   *)
C33_Witness ==
  /\ tmLast.kind = "failed"
  /\ tmLast.status = 401
  /\ AllIdle
  /\ fetchCount = 2
  /\ session # Null
  /\ ~isTokenValid(Val(session))
  /\ session = Some([accessToken |-> lastAcq.token,
                     expiresAt |-> lastAcq.at + lastAcq.expires_in * 1000])

-----------------------------------------------------------------------------
(* Properties of AuthManager, checked under SpecAM.                         *)

(* C3, as stated: in every mode a stored record is returned without an     *)
(* acquisition only when now < expiry - 300000 ms.                         *)
C3_BufferInEveryMode ==
  (amLast.op = "getAccessToken" /\ amLast.acq = "none" /\ amLast.ret # Null)
    => now < Val(amLast.exp) - TOKEN_REFRESH_BUFFER_MS

(* C4: whatever the mode was, setAccessToken(X) switches to client_token,  *)
(* and with no expiry or a future one the next getAccessToken returns X    *)
(* and the next getAuthStatus reports mode client_token.                   *)
C4_ManualOverridePrecedence ==
  [][/\ \A tok \in ManualTokens :
          \A exp \in {Null, Some(now - 1000), Some(now + 60 * 1000)} :
            SetAccessToken(tok, exp) => currentMode' = "client_token"
     /\ (/\ amLast.op = "setAccessToken"
         /\ (amLast.exp = Null \/ Val(amLast.exp) > now))
          => /\ currentMode = "client_token"
             /\ GetAccessToken => (~amLast'.threw /\ amLast'.ret = amLast.ret)
             /\ GetAuthStatus => (~amLast'.threw /\ amLast'.mode = "client_token")]_vars

(* getAccessToken returned X right after setAccessToken("X") on a manager  *)
(* that was constructed in another mode.                                   *)
C4_Witness ==
  /\ amLast.op = "getAccessToken"
  /\ amLast.after = "setAccessToken"
  /\ amLast.ret = Some("X")
  /\ currentMode = "client_token"
  /\ config.authMode # "client_token"

(* C5: in client_token mode with the manual token absent or expired,       *)
(* getAccessToken returns null, makes no acquisition, and leaves the       *)
(* manual token and the strategies as they are.                            *)
C5_ExpiredManualTokenYieldsNull ==
  [][(/\ currentMode = "client_token"
      /\ (manualToken = Null \/ Val(manualToken).expiresOn < now)
      /\ GetAccessToken)
       => /\ ~amLast'.threw
          /\ amLast'.ret = Null
          /\ amLast'.acq = "none"
          /\ manualToken' = manualToken
          /\ deviceCodeAuth' = deviceCodeAuth
          /\ clientCredentialsAuth' = clientCredentialsAuth]_vars

(* getAccessToken returned null while an expired manual token was stored.   *)
C5_Witness ==
  /\ amLast.op = "getAccessToken"
  /\ currentMode = "client_token"
  /\ manualToken # Null
  /\ Val(manualToken).expiresOn < now
  /\ amLast.ret = Null
  /\ amLast.acq = "none"

(* C6, as stated: in every mode, once a token has been acquired or         *)
(* installed, getAuthStatus called right after signOut reports             *)
(* authenticated: false.                                                   *)
C6_SignOutThenUnauthenticated ==
  (amLast.op = "getAuthStatus" /\ amLast.after = "signOut" /\ amLast.had)
    => ~amLast.auth

(* C6, amended: that holds in client_token and device_code mode; in        *)
(* client_credentials mode signOut clears the cached record, and the       *)
(* getAuthStatus after it reports authenticated only by acquiring anew.    *)
C6_SignOutClearsCaches ==
  (amLast.op = "getAuthStatus" /\ amLast.after = "signOut" /\ amLast.had)
    => /\ currentMode # "client_credentials" => (~amLast.threw /\ ~amLast.auth)
       /\ currentMode = "client_credentials" => (amLast.auth => amLast.acq = "ok")

(* With a token acquired or installed before, getAuthStatus right after    *)
(* signOut reported authenticated: false in device_code mode.              *)
C6_Witness ==
  /\ amLast.op = "getAuthStatus"
  /\ amLast.after = "signOut"
  /\ amLast.had
  /\ currentMode = "device_code"
  /\ ~amLast.auth
  /\ manualToken = Null

(* C9, as stated: getAuthStatus never throws.                               *)
C9_StatusNeverThrows == amLast.op = "getAuthStatus" => ~amLast.threw

(* C10, as stated: a failed client-credentials acquisition makes           *)
(* getAccessToken fail; it is not turned into a null token.                *)
C10_AcquisitionFailurePropagates ==
  (/\ amLast.op = "getAccessToken"
   /\ currentMode = "client_credentials"
   /\ amLast.acq = "failed")
    => amLast.threw

(* C12: signOut leaves the mode as it is: getMode() after it equals        *)
(* getMode() before it, in every mode; the manual token is cleared, and so *)
(* is the cached record of every strategy that exists, and no strategy is  *)
(* created or dropped.                                                     *)
C12_SignOutKeepsMode ==
  [][SignOut
       => /\ getMode' = getMode
          /\ manualToken' = Null
          /\ (deviceCodeAuth = Null) = (deviceCodeAuth' = Null)
          /\ (clientCredentialsAuth = Null) = (clientCredentialsAuth' = Null)
          /\ deviceCodeAuth' # Null => Val(deviceCodeAuth').cachedToken = Null
          /\ clientCredentialsAuth' # Null
               => Val(clientCredentialsAuth').cachedToken = Null]_vars

(* signOut has just run on a manager that holds both strategies and whose  *)
(* mode had been switched away from the configured one, after a token was  *)
(* acquired: the mode is still the switched one and the records are gone.  *)
C12_Witness ==
  /\ amLast.op = "signOut"
  /\ amLast.had
  /\ getMode # config.authMode
  /\ getMode = "client_credentials"
  /\ manualToken = Null
  /\ deviceCodeAuth # Null /\ Val(deviceCodeAuth).cachedToken = Null
  /\ clientCredentialsAuth # Null /\ Val(clientCredentialsAuth).cachedToken = Null

(* C13: setMode(m) sets the mode to m, so that getMode() then returns m;   *)
(* it acquires no token, builds no strategy and touches neither a          *)
(* strategy's record nor the manual token.                                 *)
C13_SetModeIsPureSelector ==
  [][\A m \in AuthModes :
       SetMode(m)
         => /\ getMode' = m
            /\ amLast'.acq = "none"
            /\ ~amLast'.threw
            /\ acquired' = acquired
            /\ deviceCodeAuth' = deviceCodeAuth
            /\ clientCredentialsAuth' = clientCredentialsAuth
            /\ manualToken' = manualToken]_vars

(* setMode has just selected client_credentials on a manager configured    *)
(* for another mode, and no client-credentials strategy exists.            *)
C13_Witness ==
  /\ amLast.op = "setMode"
  /\ getMode = "client_credentials"
  /\ config.authMode # "client_credentials"
  /\ clientCredentialsAuth = Null
  /\ ~acquired

(* The tokens that can be acquired or installed under a mode, and the      *)
(* record the manager holds for a mode.                                    *)
TokensOfMode(m) ==
  CASE m = "client_token" -> ManualTokens
    [] m = "device_code" -> DeviceTokens
    [] m = "client_credentials" -> AppTokens

RecordOfMode(m) ==
  CASE m = "client_token" -> manualToken
    [] m = "device_code" ->
         IF deviceCodeAuth = Null THEN Null ELSE Val(deviceCodeAuth).cachedToken
    [] m = "client_credentials" ->
         IF clientCredentialsAuth = Null THEN Null
         ELSE Val(clientCredentialsAuth).cachedToken

(* C14: after any sequence of calls, a token getAccessToken returns is a   *)
(* token of the active mode, the one held in the active mode's record; a   *)
(* record of an inactive mode is never returned.                           *)
C14_ModeIsolation ==
  (amLast.op = "getAccessToken" /\ amLast.ret # Null)
    => /\ Val(amLast.ret) \in TokensOfMode(currentMode)
       /\ RecordOfMode(currentMode) # Null
       /\ Val(RecordOfMode(currentMode)).accessToken = Val(amLast.ret)

(* getAccessToken returned a client-credentials token on a manager that    *)
(* was switched to client_credentials while the manual token and the       *)
(* device-code record were both still usable.                              *)
C14_Witness ==
  /\ amLast.op = "getAccessToken"
  /\ currentMode = "client_credentials"
  /\ config.authMode # "client_credentials"
  /\ amLast.ret # Null
  /\ Val(amLast.ret) \in AppTokens
  /\ notExpired(manualToken)
  /\ deviceCodeAuth # Null
  /\ notExpired(Val(deviceCodeAuth).cachedToken)

(* C15, as stated: client_credentials mode without a client secret is      *)
(* rejected when the manager or its strategy is constructed, so that no    *)
(* getAccessToken or getAuthStatus call ever fails with the configuration  *)
(* error.                                                                  *)
C15_ConfigErrorsEager ==
  amLast.op \in {"getAccessToken", "getAuthStatus"}
    => ~(amLast.threw /\ amLast.msg = "Client secret required for client_credentials mode")

(* C24: setAccessToken without an expiry installs a record that expires    *)
(* 3600 s after the call; the getAuthStatus right after it reports         *)
(* authenticated: true, and getAccessToken returns the manual token        *)
(* exactly while the clock is before that expiry, so no longer once the    *)
(* 3600 s have elapsed.                                                    *)
C24_ManualTokenDefaultExpiry ==
  [][/\ \A tok \in ManualTokens :
          SetAccessToken(tok, Null)
            => manualToken' = Some(TokenInfo(tok, now + 3600 * 1000))
     /\ (amLast.op = "setAccessToken" /\ amLast.exp = Null /\ GetAuthStatus)
          => (~amLast'.threw /\ amLast'.auth)
     /\ (currentMode = "client_token" /\ manualToken # Null /\ GetAccessToken)
          => /\ now < Val(manualToken).expiresOn
                  => amLast'.ret = Some(Val(manualToken).accessToken)
             /\ now >= Val(manualToken).expiresOn => amLast'.ret = Null]_vars

(* The token installed at time 0 without an expiry is no longer returned   *)
(* 3600 s later.                                                           *)
C24_Witness ==
  /\ amLast.op = "getAccessToken"
  /\ currentMode = "client_token"
  /\ manualToken # Null
  /\ Val(manualToken).expiresOn = 3600 * 1000
  /\ now = 3600 * 1000
  /\ amLast.ret = Null

(* The device-code strategy getTokenInfo works on: the stored one, or the   *)
(* one it builds when there is none.                                       *)
DeviceStrategy ==
  IF deviceCodeAuth = Null THEN NewDeviceCodeAuth ELSE Val(deviceCodeAuth)

(* C25: in device_code mode getAccessToken never raises; when the silent   *)
(* re-acquisition fails (MSAL throws or gives no result) it returns null   *)
(* and leaves the cached record and the accounts as they were, and with no *)
(* usable record and no account stored it returns null without any         *)
(* acquisition.                                                            *)
C25_SilentFailureSwallowed ==
  [][(currentMode = "device_code" /\ GetAccessToken)
       => /\ ~amLast'.threw
          /\ amLast'.acq = "failed"
               => (amLast'.ret = Null /\ deviceCodeAuth' = Some(DeviceStrategy))
          /\ (~notExpired(DeviceStrategy.cachedToken) /\ DeviceStrategy.accounts = 0)
               => /\ amLast'.ret = Null
                  /\ amLast'.acq = "none"
                  /\ deviceCodeAuth' = Some(DeviceStrategy)]_vars

(* getAccessToken returned null after a failed silent re-acquisition, the  *)
(* expired record and the account still in place.                          *)
C25_Witness ==
  /\ amLast.op = "getAccessToken"
  /\ currentMode = "device_code"
  /\ amLast.acq = "failed"
  /\ ~amLast.threw
  /\ amLast.ret = Null
  /\ deviceCodeAuth # Null
  /\ Val(deviceCodeAuth).accounts > 0
  /\ Val(deviceCodeAuth).cachedToken # Null
  /\ ~notExpired(Val(deviceCodeAuth).cachedToken)

(* The device-code strategy holds neither a cached record nor an account.  *)
DeviceSignedOut ==
  DeviceStrategy.cachedToken = Null /\ DeviceStrategy.accounts = 0

(* C26: signOut leaves the device-code strategy with no account and no     *)
(* cached record; it stays so until an initiateDeviceCodeFlow succeeds,    *)
(* and as long as it is so every getAccessToken in device_code mode        *)
(* returns null.                                                           *)
C26_SignOutRemovesAccounts ==
  [][/\ SignOut => DeviceSignedOut'
     /\ (DeviceSignedOut /\ ~DeviceSignedOut')
          => (amLast'.op = "initiateDeviceCodeFlow" /\ ~amLast'.threw)
     /\ (DeviceSignedOut /\ currentMode = "device_code" /\ GetAccessToken)
          => (~amLast'.threw /\ amLast'.ret = Null /\ amLast'.acq = "none")]_vars

(* After a token had been acquired and signOut had run, getAccessToken in  *)
(* device_code mode returned null without asking MSAL for a token.         *)
C26_Witness ==
  /\ amLast.op = "getAccessToken"
  /\ amLast.after = "signOut"
  /\ amLast.had
  /\ currentMode = "device_code"
  /\ amLast.ret = Null
  /\ amLast.acq = "none"
  /\ deviceCodeAuth # Null
  /\ DeviceSignedOut

(* C27: a successful initiateDeviceCodeFlow leaves the manager in          *)
(* device_code mode with the token it returned as the cached record; the   *)
(* getAccessToken right after it returns that token, and as long as the    *)
(* cached record has not expired every getAccessToken in device_code mode  *)
(* returns its token without asking MSAL and leaves the strategy as it is. *)
C27_SignInTokenIsCached ==
  [][/\ (amLast'.op = "initiateDeviceCodeFlow" /\ ~amLast'.threw)
          => /\ currentMode' = "device_code"
             /\ deviceCodeAuth' # Null
             /\ Val(deviceCodeAuth').cachedToken
                  = Some(TokenInfo(Val(amLast'.ret), Val(amLast'.exp)))
     /\ (amLast.op = "initiateDeviceCodeFlow" /\ ~amLast.threw /\ GetAccessToken)
          => (amLast'.ret = amLast.ret /\ amLast'.acq = "none")
     /\ (/\ currentMode = "device_code"
         /\ deviceCodeAuth # Null
         /\ notExpired(Val(deviceCodeAuth).cachedToken)
         /\ GetAccessToken)
          => /\ amLast'.ret = Some(Val(Val(deviceCodeAuth).cachedToken).accessToken)
             /\ amLast'.acq = "none"
             /\ deviceCodeAuth' = deviceCodeAuth]_vars

(* One minute after a sign-in whose result carried no expiry,              *)
(* getAccessToken returned the cached token without asking MSAL.           *)
C27_Witness ==
  /\ amLast.op = "getAccessToken"
  /\ currentMode = "device_code"
  /\ now = 60 * 1000
  /\ amLast.ret = Some("D1")
  /\ amLast.acq = "none"
  /\ deviceCodeAuth # Null
  /\ Val(deviceCodeAuth).cachedToken = Some(TokenInfo("D1", 3600 * 1000))

(* C34: setMode changes the current mode and nothing else: the manual     *)
(* token, both strategies with their cached records and the config stay    *)
(* as they are.  So a getAccessToken made right after setMode has selected *)
(* client_token returns the token of the manual record installed earlier,  *)
(* with no acquisition, as long as the expiry of that record is in the     *)
(* future.                                                                 *)
C34_SetModeKeepsRecords ==
  [][/\ \A m \in AuthModes :
          SetMode(m)
            => /\ currentMode' = m
               /\ <<manualToken, deviceCodeAuth, clientCredentialsAuth, config>>'
                    = <<manualToken, deviceCodeAuth, clientCredentialsAuth, config>>
     /\ (/\ amLast.op = "setMode"
         /\ currentMode = "client_token"
         /\ manualToken # Null
         /\ Val(manualToken).expiresOn > now
         /\ GetAccessToken)
          => /\ ~amLast'.threw
             /\ amLast'.acq = "none"
             /\ amLast'.ret = Some(Val(manualToken).accessToken)]_vars

(* getAccessToken has returned "X" at 60 s in client_token mode.  The      *)
(* expiry of the manual record tells that "X" was installed at 0 s, and    *)
(* the expiry of the client-credentials record that it was acquired at     *)
(* 60 s: after setAccessToken("X") the mode was set to client_credentials, *)
(* which only setMode does, and then back to client_token, which at 60 s   *)
(* only setMode can have done without replacing the manual record.         *)
C34_Witness ==
  /\ amLast.op = "getAccessToken"
  /\ amLast.ret = Some("X")
  /\ now = 60 * 1000
  /\ currentMode = "client_token"
  /\ manualToken = Some(TokenInfo("X", 3600 * 1000))
  /\ clientCredentialsAuth # Null
  /\ Val(clientCredentialsAuth).cachedToken = Some(TokenInfo("C1", 120 * 1000))

(* C35: initiateDeviceCodeFlow leaves the manager in device_code mode      *)
(* whatever the mode was and whether the flow gives a result or fails; a   *)
(* flow that fails leaves the cached record and the accounts of the        *)
(* device-code strategy, the manual token and the client-credentials       *)
(* strategy as they were.                                                  *)
C35_FlowSelectsDeviceCode ==
  [][InitiateDeviceCodeFlow
       => /\ currentMode' = "device_code"
          /\ deviceCodeAuth' # Null
          /\ amLast'.threw
               => /\ deviceCodeAuth' =
                       (IF deviceCodeAuth = Null
                        THEN Some(NewDeviceCodeAuth)
                        ELSE deviceCodeAuth)
                  /\ manualToken' = manualToken
                  /\ clientCredentialsAuth' = clientCredentialsAuth]_vars

(* A device-code flow has just failed on a manager that was in             *)
(* client_token mode with a usable manual token: the mode is device_code,  *)
(* and the manual token and the record of an earlier sign-in are still     *)
(* there.                                                                  *)
C35_Witness ==
  /\ amLast.op = "initiateDeviceCodeFlow"
  /\ amLast.threw
  /\ amLast.after = "setAccessToken"
  /\ currentMode = "device_code"
  /\ notExpired(manualToken)
  /\ deviceCodeAuth # Null
  /\ Val(deviceCodeAuth).cachedToken # Null

(* C36, as stated: when getAuthStatus has just reported authenticated:     *)
(* true, a callApi made next, at the same instant, is not rejected with    *)
(* "Not authenticated. Please sign in first."                              *)
C36_StatusAgreesWithForwarding ==
  [][(amLast.op = "getAuthStatus" /\ ~amLast.threw /\ amLast.auth /\ CallApi)
       => ~(amLast'.threw /\ amLast'.msg = NotAuthenticated)]_vars

(* C37: a status that getAuthStatus has returned reports as mode the mode  *)
(* getMode() returns at that moment, and has an expiresOn exactly when its *)
(* authenticated is true; the expiresOn is then the expiry of the record   *)
(* of that mode.                                                           *)
C37_StatusIsConsistent ==
  (amLast.op = "getAuthStatus" /\ ~amLast.threw)
    => /\ amLast.mode = getMode
       /\ amLast.exp # Null <=> amLast.auth
       /\ amLast.auth
            => /\ RecordOfMode(getMode) # Null
               /\ amLast.exp = Some(Val(RecordOfMode(getMode)).expiresOn)

(* getAuthStatus has returned an authenticated status with an expiresOn in *)
(* client_credentials mode on a manager configured for another mode.       *)
C37_Witness ==
  /\ amLast.op = "getAuthStatus"
  /\ ~amLast.threw
  /\ amLast.auth
  /\ amLast.exp # Null
  /\ amLast.mode = "client_credentials"
  /\ getMode = "client_credentials"
  /\ config.authMode # "client_credentials"

-----------------------------------------------------------------------------
(* Properties of createConfig and createServer, checked under SpecSrv.      *)

ClientCredentialsEnvOk(e) ==
  /\ e.AZURE_AUTH_MODE = Some("clientCredentials")
  /\ Coalesce(e.AZURE_TENANT_ID, "common") # "common"
  /\ Coalesce(e.AZURE_CLIENT_SECRET, "") # ""

(* C18, as stated: createConfig succeeds exactly when AZURE_AUTH_MODE is   *)
(* unset or "interactive", or is "clientCredentials" with a tenant other   *)
(* than "common" and a non-empty secret; otherwise it throws and no config *)
(* is returned.                                                            *)
C18_CreateConfigSucceedsExactlyWhen ==
  srvLast.op = "createConfig"
    => /\ ~srvLast.threw
            <=> \/ env.AZURE_AUTH_MODE = Null
                \/ env.AZURE_AUTH_MODE = Some("interactive")
                \/ ClientCredentialsEnvOk(env)
       /\ srvLast.threw <=> srvConfig = Null

(* C18, amended: the same, with an AZURE_AUTH_MODE set to the empty string *)
(* counted like an unset one; a config that is returned has the mode       *)
(* "clientCredentials" exactly when AZURE_AUTH_MODE is that.               *)
C18_CreateConfigAcceptsEmptyMode ==
  srvLast.op = "createConfig"
    => /\ ~srvLast.threw
            <=> \/ env.AZURE_AUTH_MODE = Null
                \/ env.AZURE_AUTH_MODE = Some("")
                \/ env.AZURE_AUTH_MODE = Some("interactive")
                \/ ClientCredentialsEnvOk(env)
       /\ srvLast.threw <=> srvConfig = Null
       /\ srvConfig # Null
            => (Val(srvConfig).authMode = "clientCredentials"
                  <=> env.AZURE_AUTH_MODE = Some("clientCredentials"))

(* createConfig has returned a clientCredentials config for an environment *)
(* with a specific tenant and a secret.                                    *)
C18_Witness ==
  /\ srvLast.op = "createConfig"
  /\ ~srvLast.threw
  /\ env.AZURE_AUTH_MODE = Some("clientCredentials")
  /\ srvConfig # Null
  /\ Val(srvConfig).tenantId = "contoso"
  /\ Val(srvConfig).clientSecret = "s3cret"

(* C19: a server that createServer built has exactly one token source:     *)
(* in interactive mode the auth provider and no token manager, in          *)
(* clientCredentials mode the token manager and no auth provider.          *)
C19_ExactlyOneTokenSource ==
  server # Null
    => LET srv == Val(server) IN
       /\ (srv.authProvider = Null) # (srv.tokenManager = Null)
       /\ srv.config.authMode = "interactive"
            => (srv.authProvider # Null /\ srv.tokenManager = Null)
       /\ srv.config.authMode = "clientCredentials"
            => (srv.tokenManager # Null /\ srv.authProvider = Null)

(* createServer has built a clientCredentials server: it has a token       *)
(* manager and no auth provider.                                           *)
C19_Witness ==
  /\ srvLast.op = "createServer"
  /\ server # Null
  /\ Val(server).config.authMode = "clientCredentials"
  /\ Val(server).tokenManager # Null
  /\ Val(server).authProvider = Null

(* The API key the server was configured with (Null when there is none or  *)
(* it is empty).                                                           *)
ConfiguredApiKey ==
  IF server # Null /\ Truthy(Val(server).config.apiKey)
  THEN Val(server).config.apiKey
  ELSE Null

(* The request carries "Authorization: Bearer <key>".                       *)
HasBearerHeader(request, key) ==
  /\ request.authorization # Null
  /\ Val(request.authorization) # key
  /\ StripBearer(Val(request.authorization)) = key

-----------------------------------------------------------------------------
(* Properties of GraphClient over AuthManager, checked under SpecAM.        *)

(* C20: callApi sends a request only with a token in hand; when            *)
(* getAccessToken yields null or an empty token, callApi fails with the    *)
(* "Not authenticated" error and sends nothing.                            *)
C20_NoCallWithoutToken ==
  amLast.op = "callApi"
    => /\ amLast.http = "sent" => Truthy(amLast.ret)
       /\ (~Truthy(amLast.ret)
             /\ amLast.msg # "Client secret required for client_credentials mode")
            => /\ amLast.threw
               /\ amLast.msg = NotAuthenticated
               /\ amLast.http = "none"

(* C30, as stated: callApi returns a response exactly when the status of   *)
(* the answer is 2xx; on any other status it fails, with the error.message *)
(* of the body when the body is a JSON object whose error member carries   *)
(* one, and otherwise with a message that names the status.                *)
C30_NonOkSurfacedAsError ==
  (amLast.op = "callApi" /\ amLast.http = "sent" /\ amLast.resp.kind # "network")
    => /\ ~amLast.threw <=> amLast.resp.status \in 200..299
       /\ amLast.resp.status \notin 200..299
            => IF amLast.resp.data = "json_error_message"
               THEN amLast.msg = "Resource not found"
               ELSE Contains(amLast.msg, ToString(amLast.resp.status))

(* callApi failed with "Not authenticated" and sent nothing, in            *)
(* device_code mode with nobody signed in.                                 *)
C20_Witness ==
  /\ amLast.op = "callApi"
  /\ currentMode = "device_code"
  /\ amLast.ret = Null
  /\ amLast.threw
  /\ amLast.msg = NotAuthenticated
  /\ amLast.http = "none"

-----------------------------------------------------------------------------
(* Properties of the tools of registerGraphTools and registerAuthTools,    *)
(* checked under SpecAM.                                                   *)

(* C21: the handler of a tool returns and never throws; when the call it   *)
(* wraps (callApi, getAuthStatus, setAccessToken, initiateDeviceCodeFlow,  *)
(* signOut) raised an error, the result has isError set and its text       *)
(* contains the message of that error unchanged; when the call succeeded,  *)
(* the result has no error flag.                                           *)
C21_ToolErrorsAreStructured ==
  amLast.tool.name # ""
    => /\ ~amLast.tool.threw
       /\ amLast.tool.isError <=> amLast.threw
       /\ amLast.threw => Contains(amLast.tool.text, amLast.msg)

(* microsoft_graph returned an error result that carries the "Not          *)
(* authenticated" message of callApi.                                      *)
C21_Witness ==
  /\ amLast.tool.name = "microsoft_graph"
  /\ amLast.threw
  /\ amLast.msg = NotAuthenticated
  /\ amLast.tool.isError
  /\ amLast.tool.text = "Error: Not authenticated. Please sign in first."

====
